---- MODULE Spec2Model ----
(***************************************************************************)
(* State-machine model of the Programming TA application (src/main.py):    *)
(* the Streamlit session state, the sidebar's student management, the      *)
(* code-submission handler with analyze_code, and the two read-only        *)
(* dashboards.  One action is one script run triggered by one user event.  *)
(***************************************************************************)
EXTENDS Integers, Sequences, FiniteSets, TLC

VARIABLES
    student_profiles,   \* st.session_state.student_profiles: id -> profile
    submissions,        \* st.session_state.submissions: id -> archive list
    feedback_history,   \* st.session_state.feedback_history
    current_student,    \* st.session_state.current_student
    groq_api_key,       \* st.session_state.groq_api_key
    now,                \* the wall clock read by datetime.now()
    last_call           \* the last user event and what its script run showed

vars ==
    << student_profiles, submissions, feedback_history, current_student,
       groq_api_key, now, last_call >>

-----------------------------------------------------------------------------
(* Bounds of the model.                                                    *)

\* submissions counted over all profiles
MaxSubmissions == 2

-----------------------------------------------------------------------------
(* Input alphabets.                                                        *)

None == "None"

StudentIds == {"S1", "S2"}

AssignmentNames == {"A1", "A2"}

Codes == {"print(1)"}

Languages == {"python"}

\* the keys typed into the sidebar
ApiKeys == {"", "gsk"}

-----------------------------------------------------------------------------
(* Python strings are modelled as sequences of one-character strings.      *)

Digits == {"0", "1", "2", "3", "4", "5", "6", "7", "8", "9"}

DigitVal(c) ==
    CASE c = "0" -> 0 [] c = "1" -> 1 [] c = "2" -> 2 [] c = "3" -> 3
      [] c = "4" -> 4 [] c = "5" -> 5 [] c = "6" -> 6 [] c = "7" -> 7
      [] c = "8" -> 8 [] c = "9" -> 9

Whitespace == {" "}

\* x in s, for a one-character x
Contains(s, c) == \E i \in 1..Len(s) : s[i] = c

\* s.split("/")[0]: the text before the first slash
SplitFirst(s) ==
    LET i == CHOOSE k \in 1..Len(s) :
                 s[k] = "/" /\ \A j \in 1..(k - 1) : s[j] # "/"
    IN  SubSeq(s, 1, i - 1)

\* str.strip() as int() applies it to its argument
Strip(s) ==
    IF \A i \in 1..Len(s) : s[i] \in Whitespace
    THEN << >>
    ELSE LET a == CHOOSE k \in 1..Len(s) :
                      s[k] \notin Whitespace
                      /\ \A j \in 1..(k - 1) : s[j] \in Whitespace
             b == CHOOSE k \in 1..Len(s) :
                      s[k] \notin Whitespace
                      /\ \A j \in (k + 1)..Len(s) : s[j] \in Whitespace
         IN  SubSeq(s, a, b)

RECURSIVE DecimalValue(_)
\* the value of a run of digits and underscores, underscores skipped
DecimalValue(s) ==
    IF s = << >> THEN 0
    ELSE LET c == s[Len(s)]
             r == SubSeq(s, 1, Len(s) - 1)
         IN  IF c = "_" THEN DecimalValue(r)
             ELSE 10 * DecimalValue(r) + DigitVal(c)

\* the digit part of an int() literal: digits, single underscores between
IsDecimalLiteral(s) ==
    /\ Len(s) > 0
    /\ \A i \in 1..Len(s) : s[i] \in Digits \cup {"_"}
    /\ s[1] \in Digits
    /\ s[Len(s)] \in Digits
    /\ \A i \in 1..(Len(s) - 1) : ~(s[i] = "_" /\ s[i + 1] = "_")

\* int(s) for a str s: [ok |-> FALSE] stands for ValueError
PyInt(s) ==
    LET t == Strip(s)
        signed == Len(t) > 0 /\ t[1] \in {"-", "+"}
        body == IF signed THEN SubSeq(t, 2, Len(t)) ELSE t
    IN  IF IsDecimalLiteral(body)
        THEN [ok |-> TRUE,
              val |-> IF signed /\ t[1] = "-"
                      THEN 0 - DecimalValue(body) ELSE DecimalValue(body)]
        ELSE [ok |-> FALSE, val |-> 0]

\* re.search(r'\d+', s) finds something
HasDigit(s) == \E i \in 1..Len(s) : s[i] \in Digits

\* re.search(r'\d+', s).group(): the leftmost maximal run of digits
FirstDigitRun(s) ==
    LET a == CHOOSE k \in 1..Len(s) :
                 s[k] \in Digits /\ \A j \in 1..(k - 1) : s[j] \notin Digits
        b == CHOOSE k \in a..Len(s) :
                 /\ \A j \in a..k : s[j] \in Digits
                 /\ (k = Len(s) \/ s[k + 1] \notin Digits)
    IN  SubSeq(s, a, b)

\* A JSON value of the grade_estimate field: a string, a number or null.
Str(s) == [t |-> "str", s |-> s]

Num(s) == [t |-> "num", s |-> s]

\* the "grade" expression of the progress entry; [ok |-> FALSE] stands for
\* the exception it raises (TypeError on a non-string, ValueError from int)
GradeOf(ge) ==
    IF ge.t # "str" THEN [ok |-> FALSE, val |-> 0]
    ELSE IF Contains(ge.s, "/") THEN PyInt(SplitFirst(ge.s))
    ELSE IF HasDigit(ge.s)
         THEN [ok |-> TRUE, val |-> DecimalValue(FirstDigitRun(ge.s))]
         ELSE [ok |-> TRUE, val |-> 0]

-----------------------------------------------------------------------------
(* The model's reply.  resp.kind is what requests.post and the status      *)
(* check give; resp.content is the message text after the fence clean-up,  *)
(* described by what json.loads makes of it.  A JSON object is a function  *)
(* from its keys to its values.                                            *)

EmptyDict == [k \in {} |-> 0]

Get(d, k, default) == IF k \in DOMAIN d THEN d[k] ELSE default

G_85_100 == << "8", "5", "/", "1", "0", "0" >>

G_100_100 == << "1", "0", "0", "/", "1", "0", "0" >>

G_72_words ==
    << "G", "r", "a", "d", "e", ":", " ", "7", "2", " ",
       "o", "u", "t", " ", "o", "f", " ", "1", "0", "0" >>

G_NA == << "N", "/", "A" >>

G_150_100 == << "1", "5", "0", "/", "1", "0", "0" >>

G_neg5_100 == << "-", "5", "/", "1", "0", "0" >>

GradeTexts ==
    { G_85_100, G_100_100, G_72_words, G_NA, G_150_100, G_neg5_100 }

LogicError(d) == ("description" :> d) @@ ("suggestion" :> "fix")

Misunderstanding(c) == ("concept" :> c) @@ ("description" :> "d")

Doc(ge, logic, concepts) ==
    ("overall_feedback" :> "ok") @@ ("grade_estimate" :> ge)
        @@ ("logic_errors" :> logic)
        @@ ("conceptual_misunderstandings" :> concepts)

Content(parse, doc) == [parse |-> parse, doc |-> doc]

NoContent == Content("JSONDecodeError", EmptyDict)

Reply(doc) == [kind |-> "ok", content |-> Content("object", doc)]

\* replies that carry no JSON object: the request raised or timed out, the
\* status was not 200, the body had no choices, the text was not JSON, the
\* text was JSON but not an object
FailedReplies ==
    { [kind |-> k, content |-> NoContent] :
          k \in {"exception", "timeout", "status", "badbody"} }
    \cup { [kind |-> "ok", content |-> NoContent],
           [kind |-> "ok", content |-> Content("non_object", EmptyDict)] }

FullDoc ==
    Doc(Str(G_85_100), << LogicError("loops") >>,
        << Misunderstanding("recursion") >>)

NoOverallDoc == ("grade_estimate" :> Str(G_85_100)) @@ ("logic_errors" :> << >>)

NoGradeDoc == ("overall_feedback" :> "ok") @@ ("logic_errors" :> << >>)

\* the replies of the session: a document in the requested format, one
\* whose grade is "N/A", one without overall_feedback, one without
\* grade_estimate, and the failed replies
Responses ==
    FailedReplies
    \cup { Reply(FullDoc), Reply(Doc(Str(G_NA), << >>, << >>)),
           Reply(NoOverallDoc), Reply(NoGradeDoc) }

\* replies that vary the grade text and the shape of the document
GradeResponses ==
    { Reply(Doc(Str(g), << >>, << >>)) : g \in GradeTexts }
    \cup { \* the optional lists left out
           Reply(("overall_feedback" :> "ok")
                 @@ ("grade_estimate" :> Str(G_72_words))),
           \* grade_estimate a JSON number
           Reply(("overall_feedback" :> "ok")
                 @@ ("grade_estimate" :> Num(<< "8", "5" >>))),
           \* a logic error without its description
           Reply(("overall_feedback" :> "ok")
                 @@ ("grade_estimate" :> Str(G_85_100))
                 @@ ("logic_errors" :> << ("suggestion" :> "fix") >>)) }

\* replies that vary the issue lists: one logic error, a logic error and a
\* misunderstood concept, one concept, and six issues in one document, two
\* of them reported twice
IssueResponses ==
    { Reply(Doc(Str(G_85_100), << LogicError("loops") >>, << >>)),
      Reply(FullDoc),
      Reply(Doc(Str(G_85_100), << >>, << Misunderstanding("recursion") >>)),
      Reply(Doc(Str(G_85_100),
                << LogicError("loops"), LogicError("loops"),
                   LogicError("naming"), LogicError("naming"),
                   LogicError("off-by-one") >>,
                << Misunderstanding("recursion"), Misunderstanding("scope"),
                   Misunderstanding("types") >>)) }

-----------------------------------------------------------------------------
(* analyze_code                                                            *)

\* json.loads with a fallback document where the text does not parse
json_loads_lenient(content) ==
    IF content.parse = "JSONDecodeError"
    THEN [ok |-> TRUE, is_object |-> TRUE,
          value |-> ("overall_feedback" :> "unparsed")
                    @@ ("grade_estimate" :> Str(<< "0", "/", "1", "0", "0" >>))]
    ELSE [ok |-> TRUE, is_object |-> content.parse = "object",
          value |-> content.doc]

\* json.loads(feedback): ok = FALSE stands for JSONDecodeError
json_loads(content) ==
    [ok |-> content.parse # "JSONDecodeError",
     is_object |-> content.parse = "object",
     value |-> content.doc]

EmptyProfile ==
    [history |-> << >>, submissions |-> 0, common_issues |-> EmptyDict,
     strengths |-> EmptyDict, progress |-> << >>]

\* "if student_id not in st.session_state.student_profiles: ..."
EnsureProfile(profiles, student_id) ==
    IF student_id \in DOMAIN profiles THEN profiles
    ELSE (student_id :> EmptyProfile) @@ profiles

\* the attachments to feedback_json: a key the model sent is overwritten
Stamp(doc, timestamp, language, assignment_name) ==
    ("timestamp" :> timestamp) @@ ("language" :> language)
        @@ ("assignment" :> assignment_name) @@ doc

\* building the history entry raises: KeyError on a missing key
HistoryRaises(fj) ==
    \/ "grade_estimate" \notin DOMAIN fj
    \/ \E i \in 1..Len(Get(fj, "logic_errors", << >>)) :
           "description" \notin DOMAIN Get(fj, "logic_errors", << >>)[i]
    \/ \E i \in 1..Len(Get(fj, "conceptual_misunderstandings", << >>)) :
           "concept" \notin DOMAIN Get(fj, "conceptual_misunderstandings", << >>)[i]

KeyIssues(fj) ==
    [i \in 1..Len(Get(fj, "logic_errors", << >>)) |->
         Get(fj, "logic_errors", << >>)[i]["description"]]
    \o [i \in 1..Len(Get(fj, "conceptual_misunderstandings", << >>)) |->
         Get(fj, "conceptual_misunderstandings", << >>)[i]["concept"]]

HistoryEntry(fj, timestamp, assignment_name) ==
    [timestamp |-> timestamp, assignment |-> assignment_name,
     grade_estimate |-> fj["grade_estimate"], key_issues |-> KeyIssues(fj)]

ProgressEntry(fj, timestamp, assignment_name) ==
    [timestamp |-> timestamp, assignment |-> assignment_name,
     grade |-> GradeOf(fj["grade_estimate"]).val]

\* the archive list assigned instead of appended to
StoreSubmission_replace(subs, student_id, entry) ==
    [s \in DOMAIN subs \cup {student_id} |->
         IF s = student_id THEN << entry >> ELSE subs[s]]

\* "if student_id not in st.session_state.submissions: ..." and the append
StoreSubmission(subs, student_id, entry) ==
    IF student_id \in DOMAIN subs
    THEN [subs EXCEPT ![student_id] = Append(@, entry)]
    ELSE (student_id :> << entry >>) @@ subs

Returned(S, ret) ==
    [profiles |-> S.profiles, submissions |-> S.submissions,
     feedback_history |-> S.feedback_history, ret |-> ret]

\* The store S = [profiles, submissions, feedback_history] after the call,
\* with the returned value: None, or "feedback" for the feedback_json dict.
analyze_code(S, api_key, code, language, student_id, assignment_name, resp, timestamp) ==
    IF api_key = "" THEN Returned(S, None)
    ELSE IF resp.kind # "ok" THEN Returned(S, None)
    ELSE IF ~json_loads(resp.content).ok THEN Returned(S, None)
    ELSE IF ~json_loads(resp.content).is_object THEN Returned(S, None)
    ELSE
      LET fj == Stamp(json_loads(resp.content).value, timestamp, language,
                      assignment_name)
          P1 == EnsureProfile(S.profiles, student_id)
          P2 == [P1 EXCEPT ![student_id].submissions = @ + 1]
          P3 == [P2 EXCEPT ![student_id].history =
                     Append(@, HistoryEntry(fj, timestamp, assignment_name))]
          P4 == [P3 EXCEPT ![student_id].progress =
                     Append(@, ProgressEntry(fj, timestamp, assignment_name))]
      IN  IF HistoryRaises(fj)
          THEN Returned([S EXCEPT !.profiles = P2], None)
          ELSE IF ~GradeOf(fj["grade_estimate"]).ok
          THEN Returned([S EXCEPT !.profiles = P3], None)
          ELSE
            [profiles |-> P4,
             submissions |->
                 StoreSubmission(S.submissions, student_id,
                     [code |-> code, language |-> language,
                      assignment |-> assignment_name, feedback |-> fj,
                      timestamp |-> timestamp]),
             feedback_history |->
                 Append(S.feedback_history,
                     [student_id |-> student_id,
                      assignment |-> assignment_name,
                      timestamp |-> timestamp,
                      grade_estimate |-> fj["grade_estimate"]]),
             ret |-> "feedback"]

-----------------------------------------------------------------------------
(* The sidebar of main()                                                   *)

\* "Add Student" without the membership test: the profile is reset
AddStudentProfiles_overwrite(profiles, new_student) ==
    [s \in DOMAIN profiles \cup {new_student} |->
         IF s = new_student THEN EmptyProfile ELSE profiles[s]]

\* "Add Student": a new id gets an empty profile, a known id is left alone
AddStudentProfiles(profiles, new_student) ==
    IF new_student \notin DOMAIN profiles
    THEN (new_student :> EmptyProfile) @@ profiles
    ELSE profiles

\* The value of the "Select Student" box in a run where the user did not
\* touch it: the earlier choice, or the first option when there was none.
KeptSelection(profiles, current) ==
    IF DOMAIN profiles = {} THEN None
    ELSE IF current \in DOMAIN profiles THEN current
    ELSE CHOOSE s \in DOMAIN profiles : TRUE

-----------------------------------------------------------------------------
(* The dashboards' reads                                                   *)

RECURSIVE SumGrades(_)
SumGrades(progress) ==
    IF progress = << >> THEN 0
    ELSE progress[Len(progress)].grade
         + SumGrades(SubSeq(progress, 1, Len(progress) - 1))

\* round(total / n, 1) in tenths, ties to even
RoundedTenths(total, n) ==
    LET q == (10 * total) \div n
        r == (10 * total) % n
    IN  IF 2 * r > n THEN q + 1
        ELSE IF 2 * r < n THEN q
        ELSE IF q % 2 = 0 THEN q ELSE q + 1

RECURSIVE SumSubmissions(_, _)
SumSubmissions(profiles, ids) ==
    IF ids = {} THEN 0
    ELSE LET s == CHOOSE x \in ids : TRUE
         IN  profiles[s].submissions + SumSubmissions(profiles, ids \ {s})

NoOverview == [total_students |-> 0, total_submissions |-> 0, rows |-> {}]

\* display_class_overview: the metrics and the activity table
ClassOverview(profiles) ==
    [total_students |-> Cardinality(DOMAIN profiles),
     total_submissions |-> SumSubmissions(profiles, DOMAIN profiles),
     rows |->
         { [student_id |-> s,
            submissions |-> profiles[s].submissions,
            latest_grade |->
                profiles[s].progress[Len(profiles[s].progress)].grade,
            average_tenths |->
                RoundedTenths(SumGrades(profiles[s].progress),
                              Len(profiles[s].progress))] :
           s \in { x \in DOMAIN profiles : profiles[x].progress # << >> } }]

NoAnalytics ==
    [shown |-> FALSE, submissions |-> 0, history_len |-> 0,
     progress_len |-> 0, has_latest |-> FALSE, latest_grade |-> 0,
     has_improvement |-> FALSE, improvement |-> 0, top_issues |-> << >>]

\* head(5) of the "Common Issues" table
TopN == 5

RECURSIVE AllIssues(_)
\* all_issues: the key_issues of every history entry, in order
AllIssues(history) ==
    IF history = << >> THEN << >>
    ELSE AllIssues(SubSeq(history, 1, Len(history) - 1))
         \o history[Len(history)].key_issues

RECURSIVE IssueKeys(_)
\* list(issue_counts.keys()): the distinct issues in first-seen order
IssueKeys(all_issues) ==
    IF all_issues = << >> THEN << >>
    ELSE LET keys == IssueKeys(SubSeq(all_issues, 1, Len(all_issues) - 1))
             issue == all_issues[Len(all_issues)]
         IN  IF \E i \in 1..Len(keys) : keys[i] = issue THEN keys
             ELSE Append(keys, issue)

\* issue_counts[issue]
IssueCount(all_issues, issue) ==
    Cardinality({ i \in 1..Len(all_issues) : all_issues[i] = issue })

RECURSIVE AscendingOrders(_, _)
\* the orders of the issues with the counts never decreasing
AscendingOrders(issues, all_issues) ==
    IF issues = {} THEN { << >> }
    ELSE UNION { { << x >> \o rest :
                     rest \in AscendingOrders(issues \ {x}, all_issues) } :
                 x \in { y \in issues : \A z \in issues :
                            IssueCount(all_issues, y)
                                <= IssueCount(all_issues, z) } }

\* the rows sorted by Count with ascending left at its default
SortOutcomes_ascending(all_issues) ==
    AscendingOrders({ IssueKeys(all_issues)[i] :
                          i \in 1..Len(IssueKeys(all_issues)) }, all_issues)

RECURSIVE DescendingOrders(_, _)
\* the orders of the issues with the counts never increasing: any issue of
\* the largest count first, then such an order of the others
DescendingOrders(issues, all_issues) ==
    IF issues = {} THEN { << >> }
    ELSE UNION { { << x >> \o rest :
                     rest \in DescendingOrders(issues \ {x}, all_issues) } :
                 x \in { y \in issues : \A z \in issues :
                            IssueCount(all_issues, y)
                                >= IssueCount(all_issues, z) } }

\* sort_values("Count", ascending=False): the orders of the rows that the
\* default sort (quicksort, not stable) can give, any order among equal
\* counts
SortOutcomes(all_issues) ==
    DescendingOrders({ IssueKeys(all_issues)[i] :
                           i \in 1..Len(IssueKeys(all_issues)) }, all_issues)

\* issue_df after .head(5), for one order of the sorted rows
TopIssues(all_issues, order) ==
    [i \in 1..(IF Len(order) < TopN THEN Len(order) ELSE TopN) |->
         [Issue |-> order[i], Count |-> IssueCount(all_issues, order[i])]]

\* the analytics of a profile with its "Common Issues" chart
WithTopIssues(analytics, rows) == [analytics EXCEPT !.top_issues = rows]

\* display_student_analytics: the metrics of one profile
StudentAnalytics(profile) ==
    [shown |-> TRUE,
     submissions |-> profile.submissions,
     history_len |-> Len(profile.history),
     progress_len |-> Len(profile.progress),
     has_latest |-> profile.progress # << >>,
     latest_grade |->
         IF profile.progress # << >>
         THEN profile.progress[Len(profile.progress)].grade ELSE 0,
     has_improvement |-> Len(profile.progress) > 1,
     improvement |->
         IF Len(profile.progress) > 1
         THEN profile.progress[Len(profile.progress)].grade
              - profile.progress[1].grade
         ELSE 0,
     top_issues |-> << >>]

-----------------------------------------------------------------------------
(* The state machine                                                       *)

NoResp == [kind |-> "none", content |-> NoContent]

Event(op, student_id, resp, ret, message, overview, analytics) ==
    [op |-> op, student_id |-> student_id, resp |-> resp, ret |-> ret,
     message |-> message, overview |-> overview, analytics |-> analytics]

Init ==
    /\ student_profiles = EmptyDict
    /\ submissions = EmptyDict
    /\ feedback_history = << >>
    /\ current_student = None
    /\ groq_api_key = ""
    /\ now = 0
    /\ last_call = Event("start", None, NoResp, None, "", NoOverview,
                         NoAnalytics)

\* the user types a key into "Enter Groq API Key:"
EnterApiKey(api_key) ==
    /\ api_key # groq_api_key
    /\ groq_api_key' = api_key
    /\ current_student' = KeptSelection(student_profiles, current_student)
    /\ last_call' = Event("api_key", None, NoResp, None, "",
                          NoOverview, NoAnalytics)
    /\ UNCHANGED << student_profiles, submissions, feedback_history, now >>

\* the user clicks "Add Student" with a non-empty id
AddStudent(new_student) ==
    /\ student_profiles' = AddStudentProfiles(student_profiles, new_student)
    /\ current_student' = KeptSelection(student_profiles', current_student)
    /\ last_call' = Event("add_student", new_student, NoResp, None,
                          IF new_student \notin DOMAIN student_profiles
                          THEN "success" ELSE "warning",
                          NoOverview, NoAnalytics)
    /\ UNCHANGED << submissions, feedback_history, groq_api_key, now >>

\* the user picks another student in "Select Student:"
SelectStudent(selected_student) ==
    /\ selected_student \in DOMAIN student_profiles
    /\ selected_student # current_student
    /\ current_student' = selected_student
    /\ last_call' = Event("select_student", selected_student, NoResp,
                          None, "", NoOverview, NoAnalytics)
    /\ UNCHANGED << student_profiles, submissions, feedback_history,
                    groq_api_key, now >>

\* the submission view without its guard
NoStudentSelected_never(current) == FALSE

\* "if not st.session_state.current_student"
NoStudentSelected(current) == current = None

\* the request is sent: a student is selected and there is an API key
RequestSent == ~NoStudentSelected(current_student) /\ groq_api_key # ""

\* datetime.now() is read and its value kept: the reply parsed as a JSON
\* object (on any other reply the timestamp is dropped with the exception)
ClockRead(resp) ==
    RequestSent /\ resp.kind = "ok" /\ json_loads(resp.content).is_object

\* "Code Submission" mode with the "Analyze Code" button clicked.  resp is
\* the provider's reply when a request is sent, timestamp the clock's value
\* when it is read; every call waits for the provider, so the clock has
\* moved on since the last read.
display_code_submission(code, language, assignment_name, resp, timestamp) ==
    /\ SumSubmissions(student_profiles, DOMAIN student_profiles)
           < MaxSubmissions
    /\ resp = NoResp <=> ~RequestSent
    /\ timestamp = IF ClockRead(resp) THEN now + 1 ELSE now
    /\ now' = timestamp
    /\ UNCHANGED << current_student, groq_api_key >>
    /\ IF NoStudentSelected(current_student)
       THEN /\ last_call' = Event("submit", current_student, resp, None,
                                  "warning", NoOverview, NoAnalytics)
            /\ UNCHANGED << student_profiles, submissions, feedback_history >>
       ELSE LET S == [profiles |-> student_profiles,
                      submissions |-> submissions,
                      feedback_history |-> feedback_history]
                R == analyze_code(S, groq_api_key, code, language,
                                  current_student, assignment_name, resp,
                                  timestamp)
            IN  /\ student_profiles' = R.profiles
                /\ submissions' = R.submissions
                /\ feedback_history' = R.feedback_history
                /\ last_call' = Event("submit", current_student, resp, R.ret,
                                      IF R.ret = None THEN "error"
                                      ELSE "success",
                                      NoOverview, NoAnalytics)

\* "Class Overview" mode
display_class_overview ==
    /\ last_call' = Event("class_overview", None, NoResp, None,
                          IF DOMAIN student_profiles = {} THEN "info" ELSE "",
                          ClassOverview(student_profiles), NoAnalytics)
    /\ UNCHANGED << student_profiles, submissions, feedback_history,
                    current_student, groq_api_key, now >>

\* the history the analytics view reads, empty when it shows none
HistoryRead ==
    IF current_student \in DOMAIN student_profiles
    THEN student_profiles[current_student].history ELSE << >>

\* "Student Analytics" mode
display_student_analytics ==
    /\ \E order \in SortOutcomes(AllIssues(HistoryRead)) :
         last_call' =
           IF current_student = None
           THEN Event("student_analytics", current_student, NoResp,
                      None, "warning", NoOverview, NoAnalytics)
           ELSE IF \/ current_student \notin DOMAIN student_profiles
                   \/ student_profiles[current_student].history = << >>
           THEN Event("student_analytics", current_student, NoResp,
                      None, "info", NoOverview, NoAnalytics)
           ELSE Event("student_analytics", current_student, NoResp,
                      None, "", NoOverview,
                      WithTopIssues(
                          StudentAnalytics(student_profiles[current_student]),
                          TopIssues(AllIssues(HistoryRead), order)))
    /\ UNCHANGED << student_profiles, submissions, feedback_history,
                    current_student, groq_api_key, now >>

Next ==
    \/ \E api_key \in ApiKeys : EnterApiKey(api_key)
    \/ \E new_student \in StudentIds : AddStudent(new_student)
    \/ \E selected_student \in StudentIds : SelectStudent(selected_student)
    \/ \E code \in Codes, language \in Languages,
          assignment_name \in AssignmentNames,
          resp \in Responses \cup {NoResp}, timestamp \in now..(now + 1) :
           display_code_submission(code, language, assignment_name, resp,
                                   timestamp)
    \/ display_class_overview
    \/ display_student_analytics

Spec == Init /\ [][Next]_vars

\* The same session with the replies that vary the grade text.
NextGrade ==
    \/ \E api_key \in ApiKeys : EnterApiKey(api_key)
    \/ \E new_student \in StudentIds : AddStudent(new_student)
    \/ \E code \in Codes, language \in Languages,
          assignment_name \in AssignmentNames,
          resp \in GradeResponses \cup {NoResp},
          timestamp \in now..(now + 1) :
           display_code_submission(code, language, assignment_name, resp,
                                   timestamp)

SpecGrade == Init /\ [][NextGrade]_vars

\* One student's session with the replies that vary the issue lists.
NextIssues ==
    \/ \E api_key \in ApiKeys : EnterApiKey(api_key)
    \/ AddStudent("S1")
    \/ \E code \in Codes, language \in Languages,
          resp \in IssueResponses \cup {NoResp},
          timestamp \in now..(now + 1) :
           display_code_submission(code, language, "A1", resp, timestamp)
    \/ display_student_analytics

SpecIssues == Init /\ [][NextIssues]_vars

-----------------------------------------------------------------------------
(* Properties                                                              *)

\* the archive list of a student, empty while the student has none
ArchiveOf(student_id) ==
    IF student_id \in DOMAIN submissions THEN submissions[student_id]
    ELSE << >>

IsSubmit(e) == e.op = "submit"

IsObjectReply(resp) == resp.kind = "ok" /\ resp.content.parse = "object"

StoreUnchanged ==
    /\ student_profiles' = student_profiles
    /\ submissions' = submissions
    /\ feedback_history' = feedback_history

\* C1: in every reachable state every profile has len(history) =
\* len(progress) = len(archive of that student) = submissions counter.
C1_LengthsAgree ==
    \A s \in DOMAIN student_profiles :
        /\ Len(student_profiles[s].history) = student_profiles[s].submissions
        /\ Len(student_profiles[s].progress) = student_profiles[s].submissions
        /\ Len(ArchiveOf(s)) = student_profiles[s].submissions

\* C2: a submission whose reply parsed as a JSON object and that failed
\* (returned None) leaves the counter, history, progress and archive of
\* every student as they were before the call.
C2_AllOrNothing ==
    [][(IsSubmit(last_call') /\ IsObjectReply(last_call'.resp)
        /\ last_call'.ret = None)
       => (student_profiles' = student_profiles /\ submissions' = submissions)
      ]_vars

\* C3: a submission made with no API key, or whose request raised, timed
\* out or came back with a status other than 200, or whose text is not
\* JSON, returns None with an error shown and leaves the profiles, the
\* archive and the feedback history unchanged.
C3_FailedCallChangesNothing ==
    [][(/\ IsSubmit(last_call')
        /\ ~NoStudentSelected(current_student)
        /\ \/ groq_api_key = ""
           \/ last_call'.resp.kind \in {"exception", "timeout", "status"}
           \/ /\ last_call'.resp.kind = "ok"
              /\ last_call'.resp.content.parse = "JSONDecodeError")
       => (/\ last_call'.ret = None
           /\ last_call'.message = "error"
           /\ StoreUnchanged)
      ]_vars

\* C3: a request answered with a non-200 status after earlier submissions
\* were stored
C3_Witness ==
    /\ IsSubmit(last_call)
    /\ last_call.resp.kind = "status"
    /\ last_call.ret = None
    /\ feedback_history # << >>

\* the grade the extraction policy gives: the integer before the first
\* slash that follows a digit, else the first integer in the text, else 0
PolicyGrade(s) ==
    LET slashes == { k \in 2..Len(s) : s[k] = "/" /\ s[k - 1] \in Digits }
    IN  IF slashes # {}
        THEN LET k == CHOOSE x \in slashes : \A y \in slashes : x <= y
                 a == CHOOSE x \in 1..(k - 1) :
                          /\ \A m \in x..(k - 1) : s[m] \in Digits
                          /\ (x = 1 \/ s[x - 1] \notin Digits)
                 v == DecimalValue(SubSeq(s, a, k - 1))
             IN  IF a > 1 /\ s[a - 1] = "-" THEN 0 - v ELSE v
        ELSE IF HasDigit(s) THEN DecimalValue(FirstDigitRun(s))
        ELSE 0

\* C4: for every grade text the submission succeeds and the numeric grade
\* stored for it is the one the extraction policy gives ("85/100" 85,
\* "Grade: 72 out of 100" 72, "100/100" 100, "N/A" 0).
C4_GradeFollowsPolicy ==
    (/\ IsSubmit(last_call)
     /\ IsObjectReply(last_call.resp)
     /\ ~HistoryRaises(last_call.resp.content.doc)
     /\ last_call.resp.content.doc["grade_estimate"].t = "str")
    => /\ last_call.ret # None
       /\ LET progress == student_profiles[last_call.student_id].progress
          IN  /\ progress # << >>
              /\ progress[Len(progress)].grade =
                     PolicyGrade(last_call.resp.content.doc["grade_estimate"].s)

\* C5: every numeric grade in any profile's progress is in 0..100.
C5_GradeInRange ==
    \A s \in DOMAIN student_profiles :
        \A i \in 1..Len(student_profiles[s].progress) :
            student_profiles[s].progress[i].grade \in 0..100

\* C6: a reply that parses as a JSON object without overall_feedback or
\* without grade_estimate is rejected: the submission returns None and
\* the profiles, the archive and the feedback history are unchanged.
C6_RequiredFields ==
    [][(/\ IsSubmit(last_call')
        /\ IsObjectReply(last_call'.resp)
        /\ \/ "overall_feedback" \notin DOMAIN last_call'.resp.content.doc
           \/ "grade_estimate" \notin DOMAIN last_call'.resp.content.doc)
       => (last_call'.ret = None /\ StoreUnchanged)
      ]_vars

\* C7: a submission while the current student id has no profile is turned
\* away with a warning: nothing is returned, no profile is created and no
\* history, progress, archive or feedback-history entry is added.
C7_UnknownStudentRefused ==
    [][(IsSubmit(last_call')
        /\ current_student \notin DOMAIN student_profiles)
       => (/\ last_call'.message = "warning"
           /\ last_call'.ret = None
           /\ StoreUnchanged)
      ]_vars

\* C7: the submission view was opened with no student registered
C7_Witness ==
    /\ IsSubmit(last_call)
    /\ last_call.student_id \notin DOMAIN student_profiles
    /\ last_call.message = "warning"

\* C8: "Add Student" with an absent id adds a profile with submissions 0
\* and empty history and progress and leaves the other profiles alone;
\* with an id that has a profile it leaves every profile unchanged.
C8_RegisterNonDestructive ==
    [][(last_call'.op = "add_student")
       => (/\ submissions' = submissions
           /\ feedback_history' = feedback_history
           /\ IF last_call'.student_id \in DOMAIN student_profiles
              THEN student_profiles' = student_profiles
              ELSE /\ DOMAIN student_profiles' =
                          DOMAIN student_profiles \cup {last_call'.student_id}
                   /\ student_profiles'[last_call'.student_id].submissions = 0
                   /\ student_profiles'[last_call'.student_id].history = << >>
                   /\ student_profiles'[last_call'.student_id].progress = << >>
                   /\ \A s \in DOMAIN student_profiles :
                          student_profiles'[s] = student_profiles[s])
      ]_vars

\* C8: "Add Student" was clicked for a student who already has a stored
\* submission
C8_Witness ==
    /\ last_call.op = "add_student"
    /\ last_call.message = "warning"
    /\ student_profiles[last_call.student_id].submissions > 0
    /\ student_profiles[last_call.student_id].history # << >>

\* C9: whenever the analytics view reads a profile, the submissions it
\* counts, the history entries and the progress entries it reads are the
\* same number: each submission is visible in all of them or in none.
C9_ReaderSeesWholeCommits ==
    (last_call.op = "student_analytics" /\ last_call.analytics.shown)
    => /\ last_call.analytics.history_len = last_call.analytics.submissions
       /\ last_call.analytics.progress_len = last_call.analytics.submissions

Min(a, b) == IF a < b THEN a ELSE b

\* C10: for every profile and every index that history, progress and the
\* archive all have, the three entries at that index carry the same
\* timestamp and assignment.
C10_SameSubmissionAtIndex ==
    \A s \in DOMAIN student_profiles :
        \A i \in 1..Min(Len(student_profiles[s].history),
                        Min(Len(student_profiles[s].progress),
                            Len(ArchiveOf(s)))) :
            /\ student_profiles[s].history[i].timestamp
                   = student_profiles[s].progress[i].timestamp
            /\ student_profiles[s].history[i].assignment
                   = student_profiles[s].progress[i].assignment
            /\ ArchiveOf(s)[i].timestamp
                   = student_profiles[s].history[i].timestamp
            /\ ArchiveOf(s)[i].assignment
                   = student_profiles[s].history[i].assignment

IsPrefix(a, b) == Len(a) <= Len(b) /\ SubSeq(b, 1, Len(a)) = a

\* C11: in every step every registered id stays registered, its
\* submissions counter does not decrease, and the old history, progress
\* and archive are prefixes of the new ones.
C11_ProfilesOnlyGrow ==
    [][\A s \in DOMAIN student_profiles :
           /\ s \in DOMAIN student_profiles'
           /\ student_profiles'[s].submissions
                  >= student_profiles[s].submissions
           /\ IsPrefix(student_profiles[s].history,
                       student_profiles'[s].history)
           /\ IsPrefix(student_profiles[s].progress,
                       student_profiles'[s].progress)
           /\ IsPrefix(ArchiveOf(s), ArchiveOf(s)')
      ]_vars

\* C11: a second submission was appended after a first one
C11_Witness ==
    \E s \in DOMAIN student_profiles :
        /\ student_profiles[s].submissions = 2
        /\ Len(student_profiles[s].history) = 2
        /\ Len(student_profiles[s].progress) = 2
        /\ Len(ArchiveOf(s)) = 2

\* the number of places in the history's key_issues where x stands
Occurrences(history, x) ==
    Cardinality(UNION { { << i, j >> :
                            j \in { k \in 1..Len(history[i].key_issues) :
                                      history[i].key_issues[k] = x } } :
                        i \in 1..Len(history) })

DistinctIssues(history) ==
    UNION { { history[i].key_issues[k] :
                k \in 1..Len(history[i].key_issues) } :
            i \in 1..Len(history) }

\* where x is first seen when the key_issues are read in order
FirstSeen(history, x) ==
    CHOOSE i \in 1..Len(AllIssues(history)) :
        /\ AllIssues(history)[i] = x
        /\ \A j \in 1..(i - 1) : AllIssues(history)[j] # x

\* the analytics view showed the charts of the selected student
AnalyticsShown ==
    last_call.op = "student_analytics" /\ last_call.analytics.shown

\* the rows are min(5, number of distinct issues) distinct issues, each
\* with its number of occurrences, counts never increasing, and no issue
\* left out occurs more often than a row
CountedAndSorted(history, rows) ==
    /\ Len(rows) = Min(TopN, Cardinality(DistinctIssues(history)))
    /\ \A i \in 1..Len(rows) :
           /\ rows[i].Issue \in DistinctIssues(history)
           /\ rows[i].Count = Occurrences(history, rows[i].Issue)
    /\ \A i, j \in 1..Len(rows) :
           i < j => /\ rows[i].Issue # rows[j].Issue
                    /\ rows[i].Count >= rows[j].Count
    /\ \A y \in DistinctIssues(history)
                \ { rows[i].Issue : i \in 1..Len(rows) } :
           \A i \in 1..Len(rows) : rows[i].Count >= Occurrences(history, y)

\* among equal counts the issue seen first comes first, in the rows and
\* against the issues left out
TiesByFirstSeen(history, rows) ==
    /\ \A i, j \in 1..Len(rows) :
           (i < j /\ rows[i].Count = rows[j].Count)
           => FirstSeen(history, rows[i].Issue)
                  < FirstSeen(history, rows[j].Issue)
    /\ \A y \in DistinctIssues(history)
                \ { rows[i].Issue : i \in 1..Len(rows) } :
           \A i \in 1..Len(rows) :
               rows[i].Count = Occurrences(history, y)
               => FirstSeen(history, rows[i].Issue) < FirstSeen(history, y)

\* C12 as stated: the issue table counts each distinct key issue of the
\* history, is ordered by count descending with ties in first-seen order,
\* and is cut to the first 5.
C12_StableTopIssues ==
    AnalyticsShown
    => /\ CountedAndSorted(student_profiles[last_call.student_id].history,
                           last_call.analytics.top_issues)
       /\ TiesByFirstSeen(student_profiles[last_call.student_id].history,
                          last_call.analytics.top_issues)

\* C12 amended: the issue table counts each distinct key issue of the
\* history, is ordered by count descending (in any order among equal
\* counts), and is cut to the first 5 of that order.
C12_TopIssuesByCount ==
    AnalyticsShown
    => CountedAndSorted(student_profiles[last_call.student_id].history,
                        last_call.analytics.top_issues)

\* C12: the table was cut to 5 of 6 distinct issues, with equal and with
\* different counts among its rows
C12_Witness ==
    /\ AnalyticsShown
    /\ Cardinality(DistinctIssues(
           student_profiles[last_call.student_id].history)) = 6
    /\ Len(last_call.analytics.top_issues) = 5
    /\ last_call.analytics.top_issues[1].Count
           = last_call.analytics.top_issues[2].Count
    /\ last_call.analytics.top_issues[2].Count
           > last_call.analytics.top_issues[3].Count

====
